---------------------------- MODULE Spec2Model ----------------------------
(***************************************************************************)
(* Model of the two devcli commands                                        *)
(*   src/devcli/scripts/commands/b64dec.py  (b64dec <value> [--url-safe])  *)
(*   src/devcli/scripts/commands/urlext.py  (urlext <url> [-qs])           *)
(*                                                                         *)
(* A str is a sequence of one-character strings, a bytes object is a       *)
(* sequence of integers 0..255.  One invocation of a command is one        *)
(* behaviour: Init is the state after argparse has filled `args`, the      *)
(* handler runs as one action and ends either by returning or by letting   *)
(* an exception escape.                                                    *)
(***************************************************************************)
EXTENDS Integers, Sequences, FiniteSets, TLC

VARIABLES
    args,       \* the argparse namespace handed to handle(args)
    pc,         \* "start" | "returned" | "raised"
    written,    \* the arguments of the console.write calls, in order
    exc,        \* the exception that escaped handle, "None" when none did
    url         \* urlext's local `url`: "unbound" until urlparse returned

vars == <<args, pc, written, exc, url>>

(***************************************************************************)
(* Bounds of the model.                                                    *)
(***************************************************************************)
MaxLen == 4        \* longest Base64 argument, in characters
MaxFields == 3     \* most '&'-separated fields of a query string

(***************************************************************************)
(* Characters and bytes.                                                   *)
(***************************************************************************)
\* The printable ASCII characters, code points 32..126 in order (the quote,
\* the backslash and the grave accent are written by name).
Ascii ==
    << " ", "!", "QUOTE", "#", "$", "%", "&", "'", "(", ")", "*", "+", ",", "-",
       ".", "/", "0", "1", "2", "3", "4", "5", "6", "7", "8", "9", ":", ";",
       "<", "=", ">", "?", "@", "A", "B", "C", "D", "E", "F", "G", "H", "I",
       "J", "K", "L", "M", "N", "O", "P", "Q", "R", "S", "T", "U", "V", "W",
       "X", "Y", "Z", "[", "BACKSLASH", "]", "^", "_", "GRAVE", "a", "b",
       "c", "d", "e", "f", "g", "h", "i", "j", "k", "l", "m", "n", "o", "p",
       "q", "r", "s", "t", "u", "v", "w", "x", "y", "z", "{", "|", "}", "~" >>

\* ord(c) of a printable ASCII character.
Ord(c) == 31 + (CHOOSE i \in 1..Len(Ascii) : Ascii[i] = c)

\* chr(n).  Outside the printable range the result is the replacement
\* character: the inputs of the model only escape printable characters.
Chr(n) == IF n \in 32..126 THEN Ascii[n - 31] ELSE "U+FFFD"

\* The position (from 0) of the first x in sequence s at or after position
\* start, -1 when there is none: str.find(x, start).
Find(s, x, start) ==
    IF \E i \in (start + 1)..Len(s) : s[i] = x
    THEN (CHOOSE i \in (start + 1)..Len(s) :
              s[i] = x /\ \A j \in (start + 1)..(i - 1) : s[j] # x) - 1
    ELSE -1

Contains(s, x) == \E i \in 1..Len(s) : s[i] = x

RECURSIVE Flatten(_)
\* b''.join(parts) / ''.join(parts)
Flatten(parts) ==
    IF parts = <<>> THEN <<>> ELSE Head(parts) \o Flatten(Tail(parts))

\* str.encode('UTF-8') of one character: an ASCII character is its code
\* point, U+00E9 (written "e-acute") is the two bytes C3 A9.
EncodeChar(c) == IF c = "e-acute" THEN <<195, 169>> ELSE <<Ord(c)>>

\* args.value.encode('UTF-8')
encode_utf8(str) == Flatten([i \in 1..Len(str) |-> EncodeChar(str[i])])

(***************************************************************************)
(* base64 / binascii, as b64dec.py calls them (validate=False).            *)
(***************************************************************************)
\* The standard alphabet: the character of each 6-bit value, from 0.
b64_alphabet ==
    << "A", "B", "C", "D", "E", "F", "G", "H", "I", "J", "K", "L", "M", "N",
       "O", "P", "Q", "R", "S", "T", "U", "V", "W", "X", "Y", "Z", "a", "b",
       "c", "d", "e", "f", "g", "h", "i", "j", "k", "l", "m", "n", "o", "p",
       "q", "r", "s", "t", "u", "v", "w", "x", "y", "z", "0", "1", "2", "3",
       "4", "5", "6", "7", "8", "9", "+", "/" >>

\* binascii's decoding table: the 6-bit value of each byte, 255 for a byte
\* that is no character of the standard alphabet.
a2b_table ==
    [byte \in 0..255 |->
        IF \E i \in 1..64 : b64_alphabet[i] = Chr(byte)
        THEN (CHOOSE i \in 1..64 : b64_alphabet[i] = Chr(byte)) - 1
        ELSE 255]

table_a2b_base64(byte) == a2b_table[byte]

\* A mis-shifted variant of the byte assembly (the second byte of a quad
\* takes the wrong bits of the incoming character).
a2b_byte_misshift(quad_pos, leftchar, this_ch) ==
    CASE quad_pos = 1 -> (leftchar * 4 + (this_ch \div 16)) % 256
      [] quad_pos = 2 -> (leftchar * 16 + (this_ch \div 16)) % 256
      [] OTHER        -> (leftchar * 64 + this_ch) % 256

\* The byte a2b_base64 emits when a data character arrives at quad
\* position 1, 2 or 3: (leftchar << 2) | (this_ch >> 4), and so on.
a2b_byte(quad_pos, leftchar, this_ch) ==
    CASE quad_pos = 1 -> (leftchar * 4 + (this_ch \div 16)) % 256
      [] quad_pos = 2 -> (leftchar * 16 + (this_ch \div 4)) % 256
      [] OTHER        -> (leftchar * 64 + this_ch) % 256

\* The bits of this_ch a2b_base64 keeps for the next byte.
a2b_left(quad_pos, this_ch) ==
    CASE quad_pos = 0 -> this_ch
      [] quad_pos = 1 -> this_ch % 16
      [] quad_pos = 2 -> this_ch % 4
      [] OTHER        -> 0

RECURSIVE a2b_scan(_, _, _, _, _, _)
\* The loop of binascii.a2b_base64 (strict_mode off) from byte i on.  A pad
\* counts only from quad position 2 and ends the decoding once the quad is
\* complete; a byte outside the alphabet is skipped; input that ends inside
\* a quad raises binascii.Error.
a2b_scan(data, i, quad_pos, leftchar, pads, bin) ==
    IF i > Len(data)
    THEN IF quad_pos # 0
         THEN [raised |-> TRUE, data |-> <<>>]
         ELSE [raised |-> FALSE, data |-> bin]
    ELSE IF data[i] = 61
    THEN IF quad_pos >= 2
         THEN IF quad_pos + pads + 1 >= 4
              THEN [raised |-> FALSE, data |-> bin]
              ELSE a2b_scan(data, i + 1, quad_pos, leftchar, pads + 1, bin)
         ELSE a2b_scan(data, i + 1, quad_pos, leftchar, pads, bin)
    ELSE LET this_ch == table_a2b_base64(data[i]) IN
         IF this_ch >= 64
         THEN a2b_scan(data, i + 1, quad_pos, leftchar, pads, bin)
         ELSE a2b_scan(data, i + 1, (quad_pos + 1) % 4,
                       a2b_left(quad_pos, this_ch), 0,
                       IF quad_pos = 0 THEN bin
                       ELSE Append(bin, a2b_byte(quad_pos, leftchar, this_ch)))

\* binascii.a2b_base64(s)
a2b_base64(s) == a2b_scan(s, 1, 0, 0, 0, <<>>)

\* base64.b64decode(s): altchars None, validate False.
b64decode(s) == a2b_base64(s)

\* A translation that leaves '-' and '_' as they are.
urlsafe_translation_none(byte) == byte

\* A translation in the encoding direction: '+' to '-', '/' to '_'.
urlsafe_translation_encode(byte) ==
    CASE byte = 43 -> 45
      [] byte = 47 -> 95
      [] OTHER     -> byte

\* base64._urlsafe_decode_translation: '-' to '+', '_' to '/'.
urlsafe_translation(byte) ==
    CASE byte = 45 -> 43
      [] byte = 95 -> 47
      [] OTHER     -> byte

\* base64.urlsafe_b64decode(s)
urlsafe_b64decode(s) ==
    b64decode([i \in 1..Len(s) |-> urlsafe_translation(s[i])])

\* b64dec.handle(args): what it writes and the exception that escapes it.
\* The decoder runs before console.write is called, so a decode error
\* leaves nothing written.
b64dec_handle(a) ==
    LET original_bytes == encode_utf8(a.value)
        decoded == IF a.url_safe
                   THEN urlsafe_b64decode(original_bytes)
                   ELSE b64decode(original_bytes)
    IN  IF decoded.raised
        THEN [written |-> <<>>, exc |-> "binascii.Error"]
        ELSE [written |-> <<decoded.data>>, exc |-> "None"]

(***************************************************************************)
(* The b64dec command.                                                     *)
(***************************************************************************)
\* The characters the Base64 arguments are made of: values 0 and 16 of the
\* alphabet, both spellings of 62 and 63, the pad, and two characters of
\* no alphabet (one of them not ASCII).
B64Chars == {"A", "Q", "+", "/", "-", "_", "=", "!", "e-acute"}

B64Values == UNION {[1..n -> B64Chars] : n \in 0..MaxLen}

InitB64dec ==
    /\ args \in [cmd : {"b64dec"}, value : B64Values, url_safe : BOOLEAN]
    /\ pc = "start"
    /\ written = <<>>
    /\ exc = "None"
    /\ url = "unbound"

B64decHandle ==
    /\ pc = "start"
    /\ args.cmd = "b64dec"
    /\ LET r == b64dec_handle(args) IN
        /\ written' = r.written
        /\ exc' = r.exc
        /\ pc' = IF r.exc = "None" THEN "returned" ELSE "raised"
    /\ UNCHANGED <<args, url>>

NextB64dec == B64decHandle

SpecB64dec == InitB64dec /\ [][NextB64dec]_vars

(***************************************************************************)
(* Base64 encoding and well-formedness, which the b64dec properties are    *)
(* stated with.  b64dec.py never encodes.                                  *)
(***************************************************************************)
StdChars == {b64_alphabet[i] : i \in 1..64}

UrlSafeChars == (StdChars \ {"+", "/"}) \cup {"-", "_"}

\* The number of '=' characters at the end of str.
TrailingPads(str) ==
    Cardinality({i \in 1..Len(str) : \A j \in i..Len(str) : str[j] = "="})

\* str is laid out as Base64 over the characters `alphabet`: whole quads,
\* at most two pads, all of them at the end.
WellFormed(str, alphabet) ==
    /\ Len(str) % 4 = 0
    /\ TrailingPads(str) <= 2
    /\ \A i \in 1..(Len(str) - TrailingPads(str)) : str[i] \in alphabet

\* The 6-bit value of a character of either alphabet.
SextetOf(c) ==
    CASE c = "-" -> 62
      [] c = "_" -> 63
      [] OTHER   -> (CHOOSE i \in 1..64 : b64_alphabet[i] = c) - 1

\* str is the encoding of some bytes: well formed, and the bits of its last
\* data character that carry no data are zero.
Canonical(str, alphabet) ==
    /\ WellFormed(str, alphabet)
    /\ TrailingPads(str) = 1 => SextetOf(str[Len(str) - 1]) % 4 = 0
    /\ TrailingPads(str) = 2 => SextetOf(str[Len(str) - 2]) % 16 = 0

\* The four characters (as bytes) that encode the k-th group of three
\* bytes of bin; a group cut short by the end of bin is padded with '='.
EncodeGroup(bin, k) ==
    LET n  == Len(bin) - 3 * (k - 1)
        b1 == bin[3 * k - 2]
        b2 == IF n >= 2 THEN bin[3 * k - 1] ELSE 0
        b3 == IF n >= 3 THEN bin[3 * k] ELSE 0
        ch(v) == Ord(b64_alphabet[v + 1])
    IN  << ch(b1 \div 4),
           ch((b1 % 4) * 16 + (b2 \div 16)),
           IF n >= 2 THEN ch((b2 % 16) * 4 + (b3 \div 64)) ELSE 61,
           IF n >= 3 THEN ch(b3 % 64) ELSE 61 >>

\* Standard Base64 encoding of bin, as bytes.
b64encode(bin) ==
    Flatten([k \in 1..((Len(bin) + 2) \div 3) |-> EncodeGroup(bin, k)])

\* URL-safe Base64 encoding of bin: '+' becomes '-' and '/' becomes '_'.
urlsafe_b64encode(bin) ==
    LET e == b64encode(bin) IN
    [i \in 1..Len(e) |-> CASE e[i] = 43 -> 45 [] e[i] = 47 -> 95 [] OTHER -> e[i]]

\* The handler has run.
Finished == pc # "start"

\* aGVsbG8= and the bytes of "hello".
HelloB64 == <<"a", "G", "V", "s", "b", "G", "8", "=">>
HelloBytes == <<104, 101, 108, 108, 111>>

\* The value has a character that neither alphabet nor the pad accounts
\* for, or is not laid out in padded quads.
Malformed(a) ==
    \/ \E i \in 1..Len(a.value) :
           a.value[i] \notin StdChars \cup UrlSafeChars \cup {"="}
    \/ ~WellFormed(a.value, StdChars \cup UrlSafeChars)

(***************************************************************************)
(* Properties of b64dec.                                                   *)
(***************************************************************************)
\* C1: every malformed value (a character outside the alphabet, or wrong
\* padding), with or without --url-safe, ends in a decode error with
\* nothing written.
C1_MalformedFails ==
    (Finished /\ Malformed(args)) =>
        (pc = "raised" /\ exc = "binascii.Error" /\ written = <<>>)

\* C2 as claimed: every well-formed standard-alphabet value decodes,
\* without --url-safe, to bytes whose standard encoding is the value again.
C2_RoundTripWellFormed ==
    (Finished /\ ~args.url_safe /\ WellFormed(args.value, StdChars)) =>
        /\ pc = "returned"
        /\ Len(written) = 1
        /\ b64encode(written[1]) = encode_utf8(args.value)

\* C2 as amended: every canonical standard-alphabet value (the encoding of
\* some bytes: its unused trailing bits are zero) decodes, without
\* --url-safe, to bytes whose standard encoding is the value again;
\* aGVsbG8= decodes to hello.
C2_RoundTripCanonical ==
    /\ (Finished /\ ~args.url_safe /\ Canonical(args.value, StdChars)) =>
        /\ pc = "returned"
        /\ Len(written) = 1
        /\ b64encode(written[1]) = encode_utf8(args.value)
    /\ b64dec_handle([cmd |-> "b64dec", value |-> HelloB64, url_safe |-> FALSE])
           = [written |-> <<HelloBytes>>, exc |-> "None"]

C2_Witness ==
    /\ pc = "returned"
    /\ ~args.url_safe
    /\ args.value = <<"/", "/", "Q", "=">>
    /\ written = << <<255, 244>> >>

\* C3: without --url-safe, every well-formed URL-safe value that has a '-'
\* or a '_' ends in a decode error instead of written bytes.
C3_UrlSafeInputRejected ==
    ( /\ Finished
      /\ ~args.url_safe
      /\ WellFormed(args.value, UrlSafeChars)
      /\ \E i \in 1..Len(args.value) : args.value[i] \in {"-", "_"} ) =>
        (pc = "raised" /\ exc = "binascii.Error" /\ written = <<>>)

\* C4 as claimed: every well-formed URL-safe value decodes, with
\* --url-safe, to bytes whose URL-safe encoding is the value again.
C4_UrlSafeRoundTripWellFormed ==
    (Finished /\ args.url_safe /\ WellFormed(args.value, UrlSafeChars)) =>
        /\ pc = "returned"
        /\ Len(written) = 1
        /\ urlsafe_b64encode(written[1]) = encode_utf8(args.value)

\* C4 as amended: every canonical URL-safe value decodes, with --url-safe,
\* to bytes whose URL-safe encoding is the value again ('-' is value 62,
\* '_' is value 63).
C4_UrlSafeRoundTripCanonical ==
    (Finished /\ args.url_safe /\ Canonical(args.value, UrlSafeChars)) =>
        /\ pc = "returned"
        /\ Len(written) = 1
        /\ urlsafe_b64encode(written[1]) = encode_utf8(args.value)

C4_Witness ==
    /\ pc = "returned"
    /\ args.url_safe
    /\ args.value = <<"-", "_", "Q", "=">>
    /\ written = << <<251, 244>> >>

\* C10: with --url-safe, every well-formed standard-alphabet value ('+' and
\* '/' included) is decoded without error to the bytes the handler writes
\* for it without --url-safe.
C10_UrlSafeAcceptsStandard ==
    (Finished /\ args.url_safe /\ WellFormed(args.value, StdChars)) =>
        /\ pc = "returned"
        /\ [written |-> written, exc |-> exc]
               = b64dec_handle([args EXCEPT !.url_safe = FALSE])

C10_Witness ==
    /\ pc = "returned"
    /\ args.url_safe
    /\ args.value = <<"+", "/", "+", "/">>
    /\ written = << <<251, 255, 191>> >>


(***************************************************************************)
(* urllib.parse, as urlext.py calls it.                                    *)
(***************************************************************************)
RECURSIVE Split(_, _)
\* str.split(sep) for a one-character separator.
Split(s, sep) ==
    LET i == Find(s, sep, 0) IN
    IF i < 0 THEN <<s>>
    ELSE <<SubSeq(s, 1, i)>> \o Split(SubSeq(s, i + 2, Len(s)), sep)

\* str.split(sep, 1)
SplitOnce(s, sep) ==
    LET i == Find(s, sep, 0) IN
    IF i < 0 THEN <<s>>
    ELSE <<SubSeq(s, 1, i), SubSeq(s, i + 2, Len(s))>>

RECURSIVE LStrip(_)
\* url.lstrip(_WHATWG_C0_CONTROL_OR_SPACE); of these characters the inputs
\* hold the space only.
LStrip(s) == IF s # <<>> /\ Head(s) = " " THEN LStrip(Tail(s)) ELSE s

Letters ==
    {Ascii[i] : i \in (Ord("A") - 31)..(Ord("Z") - 31)}
        \cup {Ascii[i] : i \in (Ord("a") - 31)..(Ord("z") - 31)}

Digits == {Ascii[i] : i \in (Ord("0") - 31)..(Ord("9") - 31)}

\* urllib.parse.scheme_chars
scheme_chars == Letters \cup Digits \cup {"+", "-", "."}

\* The scheme step of urlsplit: <<scheme, rest>>.  (The scheme is not
\* lower-cased here; nothing reads it.)
SplitScheme(s) ==
    LET i == Find(s, ":", 0) IN
    IF i > 0 /\ s[1] \in Letters /\ \A k \in 1..i : s[k] \in scheme_chars
    THEN <<SubSeq(s, 1, i), SubSeq(s, i + 2, Len(s))>>
    ELSE << <<>>, s >>

\* urllib.parse._splitnetloc(url, 2): <<netloc, rest>>, the netloc ending
\* at the first '/', '?' or '#'.
splitnetloc(s) ==
    LET ends  == {Find(s, c, 2) : c \in {"/", "?", "#"}} \ {-1}
        delim == IF ends = {} THEN Len(s)
                 ELSE CHOOSE d \in ends : \A e \in ends : d <= e
    IN  <<SubSeq(s, 3, delim), SubSeq(s, delim + 1, Len(s))>>

\* The text between the first '[' and the following ']' of a netloc.
BracketedHost(netloc) ==
    LET open  == Find(netloc, "[", 0)
        close == Find(netloc, "]", open + 1)
    IN  SubSeq(netloc, open + 2, close)

\* urllib.parse._check_bracketed_host accepts the host.  The bracketed
\* hosts among the inputs are ::1, which ipaddress.ip_address takes as an
\* IPv6 address, and h, which it rejects with a ValueError.
BracketedHostOk(hostname) == hostname = <<":", ":", "1">>

\* urlsplit raises ValueError on this netloc.
NetlocRaises(netloc) ==
    \/ Contains(netloc, "[") /\ ~Contains(netloc, "]")
    \/ Contains(netloc, "]") /\ ~Contains(netloc, "[")
    \/ /\ Contains(netloc, "[")
       /\ Contains(netloc, "]")
       /\ ~BracketedHostOk(BracketedHost(netloc))

\* A variant that takes the query off before the fragment.
SplitQueryFragment_query_first(rest) ==
    LET q == SplitOnce(rest, "?")
        f == IF Len(q) = 2 THEN SplitOnce(q[2], "#") ELSE SplitOnce(q[1], "#")
    IN  [path     |-> IF Len(q) = 2 THEN q[1] ELSE f[1],
         query    |-> IF Len(q) = 2 THEN f[1] ELSE <<>>,
         fragment |-> IF Len(f) = 2 THEN f[2] ELSE <<>>]

\* The last steps of urlsplit: the fragment is everything after the first
\* '#', the query everything after the first '?' of what is left.
SplitQueryFragment(rest) ==
    LET f == SplitOnce(rest, "#")
        q == SplitOnce(f[1], "?")
    IN  [path     |-> q[1],
         query    |-> IF Len(q) = 2 THEN q[2] ELSE <<>>,
         fragment |-> IF Len(f) = 2 THEN f[2] ELSE <<>>]

\* urllib.parse.urlparse(url): raised, or the components of the URL.
\* (The ;params split of the path is left out: nothing reads the path.)
urlparse(u) ==
    LET sch    == SplitScheme(LStrip(u))
        hasNet == Len(sch[2]) >= 2 /\ SubSeq(sch[2], 1, 2) = <<"/", "/">>
        net    == IF hasNet THEN splitnetloc(sch[2]) ELSE << <<>>, sch[2] >>
        qf     == SplitQueryFragment(net[2])
    IN  IF hasNet /\ NetlocRaises(net[1])
        THEN [raised |-> TRUE]
        ELSE [raised |-> FALSE, scheme |-> sch[1], netloc |-> net[1],
              path |-> qf.path, query |-> qf.query, fragment |-> qf.fragment]

HexDigits == Digits \cup {"A", "B", "C", "D", "E", "F", "a", "b", "c", "d", "e", "f"}

HexVal(c) ==
    IF c \in Digits THEN Ord(c) - Ord("0")
    ELSE IF Ord(c) >= Ord("a") THEN Ord(c) - Ord("a") + 10
    ELSE Ord(c) - Ord("A") + 10

\* One piece of the text after a '%': the escaped character and the rest,
\* or, when no two hex digits follow, the '%' and the piece as they were.
UnquoteItem(item) ==
    IF Len(item) >= 2 /\ item[1] \in HexDigits /\ item[2] \in HexDigits
    THEN <<Chr(16 * HexVal(item[1]) + HexVal(item[2]))>>
             \o SubSeq(item, 3, Len(item))
    ELSE <<"%">> \o item

\* urllib.parse.unquote(string) on ASCII text.
unquote(string) ==
    IF ~Contains(string, "%") THEN string
    ELSE LET bits == Split(string, "%") IN
         bits[1] \o Flatten([k \in 1..(Len(bits) - 1) |-> UnquoteItem(bits[k + 1])])

\* nv[i].replace('+', ' ') and unquote of it.
DecodeComponent(text) ==
    unquote([i \in 1..Len(text) |-> IF text[i] = "+" THEN " " ELSE text[i]])

\* A variant that runs with keep_blank_values on for fields that have '='.
KeepsField_blank_too(nv) == Len(nv) = 2

\* parse_qsl keeps the field nv (name_value.split('=', 1)): it has an '='
\* and a value that is not blank (keep_blank_values is False).
KeepsField(nv) == Len(nv) = 2 /\ Len(nv[2]) > 0

\* urllib.parse.parse_qsl(qs): the (name, value) pairs, in order.
parse_qsl(qs) ==
    LET query_args == IF qs # <<>> THEN Split(qs, "&") ELSE <<>>
        kept == SelectSeq(query_args,
                          LAMBDA name_value :
                              name_value # <<>>
                                  /\ KeepsField(SplitOnce(name_value, "=")))
    IN  [i \in 1..Len(kept) |->
            LET nv == SplitOnce(kept[i], "=") IN
            [name  |-> DecodeComponent(nv[1]),
             value |-> IF Len(nv) = 2 THEN DecodeComponent(nv[2]) ELSE <<>>]]

RECURSIVE parse_qs_loop(_, _, _)
\* The loop of parse_qs: a name seen before gets the value appended, a new
\* name is added at the end (a dict keeps insertion order).
parse_qs_loop(pairs, i, parsed_result) ==
    IF i > Len(pairs) THEN parsed_result
    ELSE LET p == pairs[i] IN
         parse_qs_loop(pairs, i + 1,
             IF \E k \in 1..Len(parsed_result) : parsed_result[k].name = p.name
             THEN [k \in 1..Len(parsed_result) |->
                      IF parsed_result[k].name = p.name
                      THEN [parsed_result[k] EXCEPT !.values = Append(@, p.value)]
                      ELSE parsed_result[k]]
             ELSE Append(parsed_result, [name |-> p.name, values |-> <<p.value>>]))

\* urllib.parse.parse_qs(qs): the dict's items, in insertion order.
parse_qs(qs) == parse_qs_loop(parse_qsl(qs), 1, <<>>)

(***************************************************************************)
(* The urlext command.                                                     *)
(***************************************************************************)
\* The line written first under -qs.
QsHeader == <<"-", "q", "s", ":">>

\* The f-string of a parameter line; the console colour codes are single
\* elements.
ParamLine(param, value0) ==
    <<" ", " ", "console.RED">> \o param \o <<"console.END", ":", " ", "console.GREEN">>
        \o value0 \o <<"console.END">>

\* A variant that takes the last element of the list.
FirstValue_last(value) == value[Len(value)]

\* value[0]
FirstValue(value) == value[1]

RECURSIVE urlext_loop(_, _, _)
\* The for loop of handle over query_params.items(): one console.write per
\* item; value[0] of an empty list raises IndexError.
urlext_loop(items, i, out) ==
    IF i > Len(items) THEN [written |-> out, exc |-> "None"]
    ELSE IF Len(items[i].values) = 0 THEN [written |-> out, exc |-> "IndexError"]
    ELSE urlext_loop(items, i + 1,
                     Append(out, ParamLine(items[i].name, FirstValue(items[i].values))))

\* A variant of handle without the test of args.qs.
urlext_handle_unguarded(a) ==
    LET parsed == urlparse(a.url) IN
    IF parsed.raised
    THEN [written |-> <<QsHeader>>, exc |-> "ValueError", url |-> "unbound"]
    ELSE [url |-> parsed] @@ urlext_loop(parse_qs(parsed.query), 1, <<QsHeader>>)

\* urlext.handle(args): what it writes, the exception that escapes it and
\* its local `url`.  The header is written before the URL is parsed, and
\* nothing catches the ValueError of urlparse.
urlext_handle(a) ==
    IF ~a.qs
    THEN [written |-> <<>>, exc |-> "None", url |-> "unbound"]
    ELSE LET parsed == urlparse(a.url) IN
         IF parsed.raised
         THEN [written |-> <<QsHeader>>, exc |-> "ValueError", url |-> "unbound"]
         ELSE [url |-> parsed]
                  @@ urlext_loop(parse_qs(parsed.query), 1, <<QsHeader>>)

\* The fields query strings are made of: a=1, b=2, b=3, a= (blank value),
\* b (no '='), the empty field, %61=3 (the name a, escaped) and =1 (empty
\* name).
Fields ==
    { <<"a", "=", "1">>, <<"b", "=", "2">>, <<"b", "=", "3">>, <<"a", "=">>,
      <<"b">>, <<>>, <<"%", "6", "1", "=", "3">>, <<"=", "1">> }

RECURSIVE Join(_, _)
\* sep.join(parts)
Join(parts, sep) ==
    IF Len(parts) = 0 THEN <<>>
    ELSE IF Len(parts) = 1 THEN parts[1]
    ELSE parts[1] \o <<sep>> \o Join(Tail(parts), sep)

\* Query strings of up to MaxFields fields.
Queries == {Join(fs, "&") : fs \in UNION {[1..n -> Fields] : n \in 0..MaxFields}}

\* What precedes the query: nothing, a scheme with host and path, a host
\* in brackets that is an IPv6 address, one that is none, and an unclosed
\* bracket.
Prefixes ==
    { <<>>,
      <<"h", "t", "t", "p", ":", "/", "/", "h", "/", "p">>,
      <<"/", "/", "[", ":", ":", "1", "]">>,
      <<"/", "/", "[", "h", "]">>,
      <<"/", "/", "[">> }

FragmentF == <<"#", "f">>

\* The URL arguments: a prefix, then no query, or a query with no, a
\* following or a preceding fragment.
Urls ==
    {p : p \in Prefixes}
        \cup {p \o <<"?">> \o q : p \in Prefixes, q \in Queries}
        \cup {p \o <<"?">> \o q \o FragmentF : p \in Prefixes, q \in Queries}
        \cup {p \o FragmentF \o <<"?">> \o q : p \in Prefixes, q \in Queries}

InitUrlext ==
    /\ args \in [cmd : {"urlext"}, url : Urls, qs : BOOLEAN]
    /\ pc = "start"
    /\ written = <<>>
    /\ exc = "None"
    /\ url = "unbound"

UrlextHandle ==
    /\ pc = "start"
    /\ args.cmd = "urlext"
    /\ LET r == urlext_handle(args) IN
        /\ written' = r.written
        /\ exc' = r.exc
        /\ url' = r.url
        /\ pc' = IF r.exc = "None" THEN "returned" ELSE "raised"
    /\ UNCHANGED args

NextUrlext == UrlextHandle

SpecUrlext == InitUrlext /\ [][NextUrlext]_vars

(***************************************************************************)
(* Properties of urlext.                                                   *)
(***************************************************************************)
\* The lines written after the -qs: header.
ParamLines == IF written = <<>> THEN <<>> ELSE Tail(written)

\* The URL text has no query: no '?' before the first '#', or nothing
\* between that '?' and the '#' or the end.
QueryAbsentOrEmpty(u) ==
    LET hash  == IF Find(u, "#", 0) < 0 THEN Len(u) ELSE Find(u, "#", 0)
        quest == Find(u, "?", 0)
    IN  quest < 0 \/ quest > hash \/ quest + 1 = hash

\* The '&'-separated fields of a query string.
FieldsOf(q) == Split(q, "&")

\* The name and the value a field gives, decoded ('+' is a space, %xx the
\* character); a field without '=' gives the empty value.
NameOf(field) == DecodeComponent(SplitOnce(field, "=")[1])
ValueOf(field) ==
    IF Contains(field, "=") THEN DecodeComponent(SplitOnce(field, "=")[2]) ELSE <<>>

\* The field gives its name a value that is not blank.
Valued(field) == Contains(field, "=") /\ SplitOnce(field, "=")[2] # <<>>

RECURSIVE SortedSeq(_)
\* The numbers of S in increasing order.
SortedSeq(S) ==
    IF S = {} THEN <<>>
    ELSE LET m == CHOOSE x \in S : \A y \in S : x <= y IN
         <<m>> \o SortedSeq(S \ {m})

\* One line per distinct name among the fields at the indices `among`, in
\* the order the names first occur, each with the value of that first
\* field.
LinesOfFirsts(fs, among) ==
    LET firsts == {i \in among :
                      \A j \in among : j < i => NameOf(fs[j]) # NameOf(fs[i])}
        order  == SortedSeq(firsts)
    IN  [k \in 1..Len(order) |->
            ParamLine(NameOf(fs[order[k]]), ValueOf(fs[order[k]]))]

\* C5 as claimed: with -qs, a URL whose query is empty or absent leads to
\* no console.write call at all.
C5_NoQueryNoWrite ==
    (Finished /\ args.qs /\ QueryAbsentOrEmpty(args.url)) => written = <<>>

\* C5 as amended: with -qs, a URL whose query is empty or absent leads to
\* exactly one console.write call, the -qs: header, and no parameter line.
C5_NoQueryHeaderOnly ==
    (Finished /\ args.qs /\ QueryAbsentOrEmpty(args.url)) =>
        (written = <<QsHeader>> /\ ParamLines = <<>>)

C5_Witness ==
    /\ pc = "returned"
    /\ args.qs
    /\ args.url = <<"h", "t", "t", "p", ":", "/", "/", "h", "/", "p", "#", "f", "?", "a", "=", "1">>
    /\ written = <<QsHeader>>

\* C6 as claimed: with -qs, one name: value line per distinct parameter
\* name of the query string (every name=value field names a parameter),
\* with the first value given for that name, in the order the names first
\* occur.
C6_LinePerName ==
    (pc = "returned" /\ args.qs) =>
        LET fs == FieldsOf(url.query) IN
        ParamLines = LinesOfFirsts(fs, {i \in 1..Len(fs) : Contains(fs[i], "=")})

\* C6 as amended: with -qs, after the -qs: header, one name: value line per
\* distinct decoded parameter name that has at least one non-blank value,
\* with the first non-blank value given for that name, in the order in
\* which those names first occur with a non-blank value.
C6_LinePerValuedName ==
    (pc = "returned" /\ args.qs) =>
        LET fs == FieldsOf(url.query) IN
        /\ written[1] = QsHeader
        /\ ParamLines = LinesOfFirsts(fs, {i \in 1..Len(fs) : Valued(fs[i])})

C6_Witness ==
    /\ pc = "returned"
    /\ args.qs
    /\ url.query = <<"a", "=", "1", "&", "b", "=", "2", "&", "b", "=", "3">>
    /\ ParamLines = <<ParamLine(<<"a">>, <<"1">>), ParamLine(<<"b">>, <<"2">>)>>

\* C7: without -qs the handler returns with no console.write call and
\* without having parsed the URL, whatever the URL is.
C7_NoQsNoOp ==
    (Finished /\ ~args.qs) =>
        (pc = "returned" /\ written = <<>> /\ exc = "None" /\ url = "unbound")

C7_Witness ==
    /\ pc = "returned"
    /\ ~args.qs
    /\ args.url = <<"/", "/", "[", "?", "a", "=", "1">>
    /\ urlparse(args.url).raised
    /\ written = <<>>

\* C8: with -qs, a URL that urlparse cannot parse ends without an
\* exception escaping the handler and without parameter lines.
C8_UnparseableUrlReported ==
    (Finished /\ args.qs /\ urlparse(args.url).raised) =>
        (exc = "None" /\ ParamLines = <<>>)

\* C9: with -qs, every name of query_params has a non-empty value list, so
\* value[0] never raises IndexError; a name whose every occurrence has a
\* blank value gets no line; and the number of parameter lines is the
\* number of distinct names that have a non-blank value.
C9_BlankValuesOmitted ==
    (Finished /\ args.qs) =>
        /\ exc # "IndexError"
        /\ pc = "returned" =>
            LET fs      == FieldsOf(url.query)
                valued  == {NameOf(fs[i]) : i \in {k \in 1..Len(fs) : Valued(fs[k])}}
                named   == {NameOf(fs[i]) : i \in {k \in 1..Len(fs) : fs[k] # <<>>}}
                values  == {ValueOf(fs[i]) : i \in 1..Len(fs)}
                items   == parse_qs(url.query)
            IN  /\ \A k \in 1..Len(items) : Len(items[k].values) > 0
                /\ Len(ParamLines) = Cardinality(valued)
                /\ \A n \in named \ valued : \A v \in values :
                       \A k \in 1..Len(ParamLines) : ParamLines[k] # ParamLine(n, v)

C9_Witness ==
    /\ pc = "returned"
    /\ args.qs
    /\ url.query = <<"a", "=", "&", "b", "=", "2", "&", "b">>
    /\ ParamLines = <<ParamLine(<<"b">>, <<"2">>)>>

=============================================================================
